---- MODULE Spec2Model ----
(***************************************************************************)
(* Model of the deterministic analysis engine of agents/StockAnalysis/core *)
(* (strategy_engine, support_resistance, summarizer, indicators,           *)
(* patterns).                                                               *)
(*                                                                         *)
(* Numbers.  A Python float is a record [k, v, d]: k = "fin" stands for    *)
(* the exact value v / d (d a positive integer), "inf" (v = 1 or -1) and   *)
(* "nan" are the IEEE specials, and k = "none" is Python's None.  Prices   *)
(* are counted in units of 0.00001, so that round(x, 4) is a real rounding *)
(* step of Grid units.  The rounded risk/reward ratio is held in           *)
(* hundredths.  A Python dict is a function whose DOMAIN is its key set.   *)
(* Where Python rounds a binary double that sits on an exact decimal tie,  *)
(* the model rounds half to even; the inputs below produce no such tie in  *)
(* a cluster mean.                                                          *)
(***************************************************************************)
EXTENDS Integers, Sequences, FiniteSets, TLC

VARIABLES pc, df, s_r, plan, swings, levels, zones, zones2, mtf, patterns,
          summary, outcome, ret

vars ==
  <<pc, df, s_r, plan, swings, levels, zones, zones2, mtf, patterns, summary,
    outcome, ret>>

----------------------------------------------------------------------------
(* Bounds of the model *)

MaxZones == 2
MaxBars == 5
MaxLevels == 4
WarmWindow == 3
MaxTail == 2

(* round(mean_price, 4): number of price units in one step of the rounding *)
Grid == 10

(* default windows of the indicators *)
RsiWindow == 14
MacdFast == 12
MacdSlow == 26
MacdSignal == 9
BollingerWindow == 20
BollingerNumStd == 2
AtrWindow == 14
SmaShort == 50
SmaLong == 200

(* cluster_levels(levels, threshold=0.005), as the fraction 5 / 1000 *)
ThresholdNum == 5
ThresholdDen == 1000

(* number of price units in 1.0 *)
One == Grid * 10000

----------------------------------------------------------------------------
(* Floats and None *)

Fin(x) == [k |-> "fin", v |-> x, d |-> 1]
PosInf == [k |-> "inf", v |-> 1, d |-> 1]
NegInf == [k |-> "inf", v |-> -1, d |-> 1]
NaN == [k |-> "nan", v |-> 0, d |-> 1]
None == [k |-> "none", v |-> 0, d |-> 1]

IsFin(a) == a.k = "fin"

(* a < b on floats: false as soon as one side is NaN *)
FLt(a, b) ==
  CASE a.k = "nan" \/ b.k = "nan" -> FALSE
    [] a.k = "fin" /\ b.k = "fin" -> a.v * b.d < b.v * a.d
    [] a.k = "inf" /\ b.k = "inf" -> a.v < b.v
    [] a.k = "inf" -> a.v < 0
    [] OTHER -> b.v > 0

Abs(x) == IF x < 0 THEN -x ELSE x

(* Python round(n/d, 2) for n >= 0, d > 0, result in hundredths:           *)
(* round-half-even on the quotient                                          *)
Round2(n, d) ==
  LET q == (100 * n) \div d
      r == (100 * n) % d
  IN  IF 2 * r < d THEN q
      ELSE IF 2 * r > d THEN q + 1
      ELSE IF q % 2 = 0 THEN q ELSE q + 1

RECURSIVE SeqMax(_)
SeqMax(s) ==
  IF Len(s) = 1 THEN s[1]
  ELSE LET m == SeqMax(Tail(s)) IN IF s[1] >= m THEN s[1] ELSE m

RECURSIVE SeqMin(_)
SeqMin(s) ==
  IF Len(s) = 1 THEN s[1]
  ELSE LET m == SeqMin(Tail(s)) IN IF s[1] <= m THEN s[1] ELSE m

RECURSIVE SeqSum(_)
SeqSum(s) == IF s = <<>> THEN 0 ELSE s[1] + SeqSum(Tail(s))

(* the ascending list of the members of a finite set of integers *)
RECURSIVE SortedSeq(_)
SortedSeq(S) ==
  IF S = {} THEN <<>>
  ELSE LET m == CHOOSE x \in S : \A y \in S : x <= y
       IN  <<m>> \o SortedSeq(S \ {m})

----------------------------------------------------------------------------
(* Data frames: the set of column names and the rows, each row a function  *)
(* from the column names to floats.  frame = FALSE is a value that is not  *)
(* a DataFrame (None).                                                      *)

NoFrame == [frame |-> FALSE, columns |-> {}, rows |-> <<>>]
Frame(cols, rws) == [frame |-> TRUE, columns |-> cols, rows |-> rws]

(* DataFrame.empty: some axis has length 0 *)
Empty(f) == f.columns = {} \/ f.rows = <<>>

(* df[col].iloc[-1] *)
Last(f, col) == f.rows[Len(f.rows)][col]

EmptyDict == <<>>

----------------------------------------------------------------------------
(* strategy_engine.build_trade_plan *)

Levels(zs) == [i \in 1..Len(zs) |-> zs[i].level]

NearestSupportFirst(support_levels, last_close) ==
  LET below == SelectSeq(support_levels, LAMBDA s : FLt(Fin(s), last_close))
  IN  IF below = <<>> THEN 0 ELSE below[1]

NearestSupport(support_levels, last_close) ==
  LET below == SelectSeq(support_levels, LAMBDA s : FLt(Fin(s), last_close))
  IN  IF below = <<>> THEN 0 ELSE SeqMax(below)

NearestResistanceInclusive(resistance_levels, last_close) ==
  LET above == SelectSeq(resistance_levels,
                         LAMBDA r : ~FLt(Fin(r), last_close) /\ last_close.k /= "nan")
  IN  IF above = <<>> THEN PosInf ELSE Fin(SeqMin(above))

NearestResistance(resistance_levels, last_close) ==
  LET above == SelectSeq(resistance_levels, LAMBDA r : FLt(last_close, Fin(r)))
  IN  IF above = <<>> THEN PosInf ELSE Fin(SeqMin(above))

DirectionLoose(nearest_support, last_close, nearest_resistance) ==
  IF ~FLt(last_close, Fin(nearest_support)) /\ FLt(last_close, nearest_resistance)
  THEN "LONG" ELSE "None"

DirectionWithSupport(nearest_support, last_close, nearest_resistance) ==
  IF /\ nearest_support > 0
     /\ FLt(Fin(nearest_support), last_close)
     /\ FLt(last_close, nearest_resistance)
  THEN "LONG" ELSE "None"

Direction(nearest_support, last_close, nearest_resistance) ==
  IF FLt(Fin(nearest_support), last_close) /\ FLt(last_close, nearest_resistance)
  THEN "LONG" ELSE "None"

(* rr, then round(rr, 2) if rr else None; nearest_support > 0 only when a  *)
(* support below a finite last close was found                              *)
RiskRewardTruncated(nearest_support, last_close, nearest_resistance) ==
  IF nearest_support > 0
  THEN Fin((100 * (nearest_resistance.v - last_close.v))
             \div (last_close.v - nearest_support))
  ELSE None

RiskRewardCeiling(nearest_support, last_close, nearest_resistance) ==
  IF nearest_support > 0
  THEN Fin(-((-100 * (nearest_resistance.v - last_close.v))
               \div (last_close.v - nearest_support)))
  ELSE None

RiskReward(nearest_support, last_close, nearest_resistance) ==
  IF nearest_support > 0
  THEN Fin(Round2(nearest_resistance.v - last_close.v,
                  last_close.v - nearest_support))
  ELSE None

NoResistanceNote == "No valid resistance zone above price."
PlanNote == "Trade plan generated based on support/resistance levels."

(* lines 9-41: the plan of a frame that has a last close *)
TradePlanFor(f, sr) ==
  LET last_close == Last(f, "Close")
      nearest_support == NearestSupport(Levels(sr.support_zones), last_close)
      nearest_resistance ==
        NearestResistance(Levels(sr.resistance_zones), last_close)
  IN  IF nearest_resistance = PosInf
      THEN [note |-> NoResistanceNote]
      ELSE [direction |->
              Direction(nearest_support, last_close, nearest_resistance),
            entry |-> last_close,
            stop_loss |-> Fin(nearest_support),
            take_profit |-> nearest_resistance,
            risk_reward |->
              RiskReward(nearest_support, last_close, nearest_resistance),
            note |-> PlanNote]

build_trade_plan_note_on_empty(f, sr) ==
  IF ~f.frame \/ Empty(f) THEN [note |-> NoResistanceNote]
  ELSE TradePlanFor(f, sr)

build_trade_plan(f, sr) ==
  IF ~f.frame \/ Empty(f) THEN EmptyDict ELSE TradePlanFor(f, sr)

----------------------------------------------------------------------------
(* Inputs of the trade plan builder *)

Zone(lvl, n) ==
  [level |-> lvl,
   strength |-> IF n >= 4 THEN "very strong"
                ELSE IF n >= 2 THEN "strong" ELSE "medium",
   hits |-> n]

PlanLevels ==
  {1, 90 * One, 95 * One, 100 * One, 100 * One + 4 * (One \div 10), 110 * One}

PlanCloses ==
  {Fin(0), Fin(95 * One), Fin(100 * One), Fin(105 * One), NaN, PosInf, NegInf}

(* zone lists as the clusterer returns them: ascending levels *)
PlanZoneLists ==
  {[i \in 1..Cardinality(S) |-> Zone(SortedSeq(S)[i], 1)] :
     S \in {T \in SUBSET PlanLevels : Cardinality(T) <= MaxZones}}

CloseRow(c) == [Close |-> c]

PlanFrames ==
  {NoFrame, Frame({"Close"}, <<>>)}
    \cup {Frame({"Close"}, <<CloseRow(c)>>) : c \in PlanCloses}
    \cup {Frame({"Close"}, <<CloseRow(Fin(110 * One)), CloseRow(c)>>) :
            c \in PlanCloses}

NoZones == [support_zones |-> <<>>, resistance_zones |-> <<>>]

NoSwings == [support |-> <<>>, resistance |-> <<>>]

Idle ==
  /\ swings = NoSwings
  /\ levels = <<>>
  /\ zones = <<>>
  /\ zones2 = <<>>
  /\ mtf = <<>>
  /\ patterns = <<>>
  /\ summary = <<>>
  /\ outcome = "none"
  /\ ret = <<>>

InitPlan ==
  /\ pc = "plan_call"
  /\ df \in PlanFrames
  /\ s_r \in [support_zones : PlanZoneLists, resistance_zones : PlanZoneLists]
  /\ plan = EmptyDict
  /\ Idle

BuildTradePlan ==
  /\ pc = "plan_call"
  /\ plan' = build_trade_plan(df, s_r)
  /\ pc' = "plan_done"
  /\ UNCHANGED <<df, s_r, swings, levels, zones, zones2, mtf,
               patterns, summary, outcome, ret>>

NextPlan == BuildTradePlan

SpecPlan == InitPlan /\ [][NextPlan]_vars

(* the plan's shapes *)
FullPlanKeys ==
  {"direction", "entry", "stop_loss", "take_profit", "risk_reward", "note"}
IsFullPlan(p) == DOMAIN p = FullPlanKeys
IsNoteOnly(p) == DOMAIN p = {"note"} /\ p.note = NoResistanceNote

SupportsBelow ==
  {s_r.support_zones[i].level : i \in
     {j \in 1..Len(s_r.support_zones) :
        FLt(Fin(s_r.support_zones[j].level), Last(df, "Close"))}}
ResistancesAbove ==
  {s_r.resistance_zones[i].level : i \in
     {j \in 1..Len(s_r.resistance_zones) :
        FLt(Last(df, "Close"), Fin(s_r.resistance_zones[j].level))}}

(* C1: whenever the returned plan's direction is LONG, its stop_loss is    *)
(* strictly below its entry and its take_profit strictly above its entry.  *)
C1_LongPlanBrackets ==
  (pc = "plan_done" /\ IsFullPlan(plan) /\ plan.direction = "LONG")
    => FLt(plan.stop_loss, plan.entry) /\ FLt(plan.entry, plan.take_profit)

C1_Witness ==
  pc = "plan_done" /\ IsFullPlan(plan) /\ plan.direction = "LONG"

(* C2: in a full plan stop_loss is the greatest support level strictly     *)
(* below the last close (0 if there is none) and take_profit the least     *)
(* resistance level strictly above it; so a support below price gives      *)
(* stop_loss < close, and take_profit > close always.                      *)
C2_NearestLevels ==
  (pc = "plan_done" /\ IsFullPlan(plan)) =>
    /\ SupportsBelow = {} => plan.stop_loss = Fin(0)
    /\ SupportsBelow /= {} =>
         /\ plan.stop_loss.v \in SupportsBelow
         /\ \A s \in SupportsBelow : s <= plan.stop_loss.v
         /\ FLt(plan.stop_loss, Last(df, "Close"))
    /\ IsFin(plan.take_profit)
    /\ plan.take_profit.v \in ResistancesAbove
    /\ \A r \in ResistancesAbove : plan.take_profit.v <= r
    /\ FLt(Last(df, "Close"), plan.take_profit)

(* close 100, supports 90 and 95, resistance 110: stop 95, target 110, LONG *)
C2_Witness ==
  /\ pc = "plan_done"
  /\ IsFullPlan(plan)
  /\ Last(df, "Close") = Fin(100 * One)
  /\ Levels(s_r.support_zones) = <<90 * One, 95 * One>>
  /\ Levels(s_r.resistance_zones) = <<110 * One>>
  /\ plan.stop_loss = Fin(95 * One)
  /\ plan.take_profit = Fin(110 * One)
  /\ plan.direction = "LONG"
  /\ plan.risk_reward = Fin(200)

(* C3: when no resistance level lies strictly above the last close, the    *)
(* plan has the note and none of direction, entry, stop_loss, take_profit, *)
(* risk_reward; a returned take_profit is never infinite.                  *)
C3_NoResistanceNoteOnly ==
  (pc = "plan_done" /\ df.frame /\ ~Empty(df)) =>
    /\ ResistancesAbove = {} => IsNoteOnly(plan)
    /\ "take_profit" \in DOMAIN plan => IsFin(plan.take_profit)

(* a resistance exactly at the close, none above *)
C3_Witness ==
  /\ pc = "plan_done"
  /\ df.frame /\ ~Empty(df)
  /\ ResistancesAbove = {}
  /\ \E i \in 1..Len(s_r.resistance_zones) :
       Fin(s_r.resistance_zones[i].level) = Last(df, "Close")
  /\ IsNoteOnly(plan)

(* C4 as stated: risk_reward is exactly (take_profit - entry) /            *)
(* (entry - stop_loss) when nearest_support > 0, and null otherwise.       *)
C4_ExactRatio ==
  (pc = "plan_done" /\ IsFullPlan(plan)) =>
    IF plan.stop_loss.v > 0
    THEN /\ IsFin(plan.risk_reward)
         /\ plan.risk_reward.v * (plan.entry.v - plan.stop_loss.v)
              = 100 * (plan.take_profit.v - plan.entry.v)
    ELSE plan.risk_reward = None

(* C4 amended: risk_reward is that ratio rounded to two decimals (within   *)
(* 0.005 of it) when nearest_support > 0, and null otherwise.              *)
C4_RoundedRatio ==
  (pc = "plan_done" /\ IsFullPlan(plan)) =>
    IF plan.stop_loss.v > 0
    THEN /\ IsFin(plan.risk_reward)
         /\ 2 * Abs(plan.risk_reward.v * (plan.entry.v - plan.stop_loss.v)
                      - 100 * (plan.take_profit.v - plan.entry.v))
              <= plan.entry.v - plan.stop_loss.v
    ELSE plan.risk_reward = None

(* a ratio that is not a whole number of hundredths: 5 / 4.6 *)
C4_Witness ==
  /\ pc = "plan_done"
  /\ IsFullPlan(plan)
  /\ plan.stop_loss.v > 0
  /\ plan.risk_reward = Fin(109)
  /\ (100 * (plan.take_profit.v - plan.entry.v))
       % (plan.entry.v - plan.stop_loss.v) /= 0

(* C5 as stated: for every input, the empty series included, the plan is   *)
(* the note-only plan or a full plan.                                       *)
C5_AlwaysNoteOrFull ==
  pc = "plan_done" => (IsNoteOnly(plan) \/ IsFullPlan(plan))

(* C5 amended: for a non-empty series the plan is the note-only plan or a  *)
(* full plan; for a missing or empty series it is the empty plan {}.       *)
C5_NoteOrFullUnlessEmpty ==
  pc = "plan_done" =>
    IF df.frame /\ ~Empty(df)
    THEN IsNoteOnly(plan) \/ (IsFullPlan(plan) /\ plan.note = PlanNote)
    ELSE plan = EmptyDict

C5_Witness ==
  pc = "plan_done" /\ df.frame /\ Empty(df) /\ plan = EmptyDict

(* C27: a full plan for a positive last close has direction LONG, the     *)
(* direction is null only when the last close is <= 0; with a resistance    *)
(* above a positive close and no support strictly below it the plan is     *)
(* LONG with stop_loss = 0 and risk_reward = null.                          *)
C27_LongForPositiveClose ==
  (pc = "plan_done" /\ IsFullPlan(plan)) =>
    LET last_close == Last(df, "Close")
    IN  /\ plan.direction \in {"LONG", "None"}
        /\ FLt(Fin(0), last_close) => plan.direction = "LONG"
        /\ plan.direction = "None" =>
             (FLt(last_close, Fin(0)) \/ last_close = Fin(0))
        /\ (FLt(Fin(0), last_close) /\ SupportsBelow = {}) =>
             /\ plan.direction = "LONG"
             /\ plan.stop_loss = Fin(0)
             /\ plan.risk_reward = None

(* close 95 with supports only at or above it and a resistance above *)
C27_Witness ==
  /\ pc = "plan_done"
  /\ IsFullPlan(plan)
  /\ Last(df, "Close") = Fin(95 * One)
  /\ s_r.support_zones /= <<>>
  /\ SupportsBelow = {}
  /\ plan.direction = "LONG"
  /\ plan.stop_loss = Fin(0)
  /\ plan.risk_reward = None

(* C28 as stated: a non-null risk_reward is strictly greater than 0.       *)
C28_RiskRewardPositive ==
  (pc = "plan_done" /\ IsFullPlan(plan) /\ plan.risk_reward /= None)
    => FLt(Fin(0), plan.risk_reward)

(* C28 amended: a non-null risk_reward is >= 0; it is 0 when the ratio     *)
(* (take_profit - entry) / (entry - stop_loss) is below 0.005 and positive *)
(* when the ratio is above 0.005.                                           *)
C28_RiskRewardNonNegative ==
  (pc = "plan_done" /\ IsFullPlan(plan) /\ plan.risk_reward /= None) =>
    LET gain == plan.take_profit.v - plan.entry.v
        risk == plan.entry.v - plan.stop_loss.v
    IN  /\ IsFin(plan.risk_reward)
        /\ plan.risk_reward.v >= 0
        /\ gain > 0 /\ risk > 0
        /\ 200 * gain < risk => plan.risk_reward = Fin(0)
        /\ 200 * gain > risk => plan.risk_reward.v > 0

(* close 100 just below the resistance 100.4 with a distant support: the   *)
(* ratio is below 0.005 and is stored as 0.0                                *)
C28_Witness ==
  /\ pc = "plan_done"
  /\ IsFullPlan(plan)
  /\ plan.entry = Fin(100 * One)
  /\ plan.take_profit = Fin(100 * One + 4 * (One \div 10))
  /\ plan.stop_loss.v > 0
  /\ plan.risk_reward = Fin(0)

----------------------------------------------------------------------------
(* support_resistance.swing_levels *)

HasCols(f, cols) == cols \subseteq f.columns

(* the loop body's tests at 1-based row i of rows rs *)
IsSwingLowLoose(rs, i) ==
  ~FLt(rs[i - 1].Low, rs[i].Low) /\ FLt(rs[i].Low, rs[i + 1].Low)

IsSwingLow(rs, i) ==
  FLt(rs[i].Low, rs[i - 1].Low) /\ FLt(rs[i].Low, rs[i + 1].Low)

IsSwingHigh(rs, i) ==
  FLt(rs[i - 1].High, rs[i].High) /\ FLt(rs[i + 1].High, rs[i].High)

(* for i in range(1, n - 1): rows 2 .. n-1 counted from 1 *)
RECURSIVE SwingLoop(_, _, _)
SwingLoop(rs, i, acc) ==
  IF i > Len(rs) - 1 THEN acc
  ELSE SwingLoop(rs, i + 1,
         [support |->
            IF IsSwingLow(rs, i)
            THEN Append(acc.support, rs[i].Low.v) ELSE acc.support,
          resistance |->
            IF IsSwingHigh(rs, i)
            THEN Append(acc.resistance, rs[i].High.v) ELSE acc.resistance])

swing_levels(f) ==
  IF Empty(f) \/ ~HasCols(f, {"High", "Low"}) THEN NoSwings
  ELSE IF Len(f.rows) < 3 THEN NoSwings
  ELSE SwingLoop(f.rows, 2, NoSwings)

----------------------------------------------------------------------------
(* support_resistance.cluster_levels *)

(* sorted(levels): insertion into an ascending list *)
RECURSIVE Insert(_, _)
Insert(x, s) ==
  IF s = <<>> THEN <<x>>
  ELSE IF x <= s[1] THEN <<x>> \o s
  ELSE <<s[1]>> \o Insert(x, Tail(s))

RECURSIVE Sorted(_)
Sorted(s) == IF s = <<>> THEN <<>> ELSE Insert(s[1], Sorted(Tail(s)))

(* abs(lvl - last) / last < threshold.  A negative last level makes the    *)
(* quotient <= 0; a zero one makes it inf or nan on numpy floats, which is *)
(* not below the threshold.                                                 *)
WithinThreshold(lvl, last_lvl_in_cluster) ==
  IF last_lvl_in_cluster > 0
  THEN ThresholdDen * Abs(lvl - last_lvl_in_cluster)
         < ThresholdNum * last_lvl_in_cluster
  ELSE last_lvl_in_cluster < 0

(* the loop measuring each level against the first member of the cluster *)
RECURSIVE ClusterLoopFromFirst(_, _, _)
ClusterLoopFromFirst(sorted, i, clusters) ==
  IF i > Len(sorted) THEN clusters
  ELSE LET k == Len(clusters)
           first_lvl_in_cluster == clusters[k][1]
       IN  ClusterLoopFromFirst(sorted, i + 1,
             IF WithinThreshold(sorted[i], first_lvl_in_cluster)
             THEN [clusters EXCEPT ![k] = Append(@, sorted[i])]
             ELSE Append(clusters, <<sorted[i]>>))

(* for lvl in levels[1:], from position i of the sorted list *)
RECURSIVE ClusterLoop(_, _, _)
ClusterLoop(sorted, i, clusters) ==
  IF i > Len(sorted) THEN clusters
  ELSE LET k == Len(clusters)
           last_lvl_in_cluster == clusters[k][Len(clusters[k])]
       IN  ClusterLoop(sorted, i + 1,
             IF WithinThreshold(sorted[i], last_lvl_in_cluster)
             THEN [clusters EXCEPT ![k] = Append(@, sorted[i])]
             ELSE Append(clusters, <<sorted[i]>>))

(* the loop started one level late: for lvl in levels[2:] *)
ClustersSkipping(lvls) ==
  IF lvls = <<>> THEN <<>>
  ELSE LET sorted == Sorted(lvls) IN ClusterLoop(sorted, 3, <<<<sorted[1]>>>>)

Clusters(lvls) ==
  IF lvls = <<>> THEN <<>>
  ELSE LET sorted == Sorted(lvls) IN ClusterLoop(sorted, 2, <<<<sorted[1]>>>>)

(* round(float(np.mean(cluster)), 4) of a cluster of non-negative levels,  *)
(* in price units: the nearest multiple of Grid, half to even              *)
RoundedMean(cluster) ==
  LET d == Len(cluster) * Grid
      q == SeqSum(cluster) \div d
      r == SeqSum(cluster) % d
  IN  Grid * (IF 2 * r < d THEN q
              ELSE IF 2 * r > d THEN q + 1
              ELSE IF q % 2 = 0 THEN q ELSE q + 1)

StrengthAboveFour(count) ==
  IF count > 4 THEN "very strong"
  ELSE IF count >= 2 THEN "strong" ELSE "medium"

Strength(count) ==
  IF count >= 4 THEN "very strong"
  ELSE IF count >= 2 THEN "strong" ELSE "medium"

Grade(cluster) ==
  [level |-> RoundedMean(cluster),
   strength |-> Strength(Len(cluster)),
   hits |-> Len(cluster)]

cluster_levels(lvls) ==
  LET clusters == Clusters(lvls)
  IN  [i \in 1..Len(clusters) |-> Grade(clusters[i])]

support_resistance(f) ==
  LET sw == swing_levels(f)
  IN  [support_zones |-> cluster_levels(sw.support),
       resistance_zones |-> cluster_levels(sw.resistance)]

----------------------------------------------------------------------------
(* Inputs of the swing detector: bars as (High, Low) pairs, Low <= High *)

Bar(h, l) == [High |-> Fin(h), Low |-> Fin(l)]

SwingBars ==
  {Bar(One, One \div 2), Bar(3 * One, 2 * One), Bar(2 * One, One),
   Bar(5 * One, 4 * One), Bar(3 * One, One)}

SwingFrames ==
  {Frame({"High", "Low"}, rs) :
     rs \in UNION {[1..n -> SwingBars] : n \in 0..MaxBars}}
    \cup {Frame({"High"}, <<[High |-> Fin(One)]>>),
          Frame({"Low"}, <<[Low |-> Fin(One)]>>),
          Frame({"Close"}, <<CloseRow(Fin(One))>>)}

InitSwing ==
  /\ pc = "swing_call"
  /\ df \in SwingFrames
  /\ s_r = NoZones
  /\ plan = EmptyDict
  /\ Idle

SwingLevels ==
  /\ pc = "swing_call"
  /\ swings' = swing_levels(df)
  /\ pc' = "swing_done"
  /\ outcome' = "returned"
  /\ UNCHANGED <<df, s_r, plan, levels, zones, zones2, mtf,
               patterns, summary, ret>>

SupportResistance ==
  /\ pc = "swing_call"
  /\ s_r' = support_resistance(df)
  /\ pc' = "sr_done"
  /\ outcome' = "returned"
  /\ UNCHANGED <<df, plan, swings, levels, zones, zones2, mtf,
               patterns, summary, ret>>

NextSwing == SwingLevels \/ SupportResistance

SpecSwing == InitSwing /\ [][NextSwing]_vars

SwingLowRows ==
  {i \in 2..(Len(df.rows) - 1) :
     /\ df.rows[i].Low.v < df.rows[i - 1].Low.v
     /\ df.rows[i].Low.v < df.rows[i + 1].Low.v}
SwingHighRows ==
  {i \in 2..(Len(df.rows) - 1) :
     /\ df.rows[i].High.v > df.rows[i - 1].High.v
     /\ df.rows[i].High.v > df.rows[i + 1].High.v}

(* C6: the raw supports are exactly the lows of the interior bars whose    *)
(* low is strictly below both neighbours' lows, in bar order, and the raw  *)
(* resistances the highs strictly above both neighbours' highs; the first  *)
(* and the last bar and a bar equal to a neighbour are never swing points, *)
(* and fewer than 3 bars give two empty lists.                             *)
C6_SwingPoints ==
  (pc = "swing_done" /\ HasCols(df, {"High", "Low"})) =>
    /\ Len(swings.support) = Cardinality(SwingLowRows)
    /\ \A i \in SwingLowRows :
         swings.support[Cardinality({j \in SwingLowRows : j <= i})]
           = df.rows[i].Low.v
    /\ Len(swings.resistance) = Cardinality(SwingHighRows)
    /\ \A i \in SwingHighRows :
         swings.resistance[Cardinality({j \in SwingHighRows : j <= i})]
           = df.rows[i].High.v
    /\ Len(df.rows) < 3 => swings = NoSwings

(* C11: swing_levels and support_resistance signal an error, and return   *)
(* no lists, when the series is empty or lacks the High or the Low column. *)
C11_InvalidInputRaises ==
  (pc \in {"swing_done", "sr_done"}
     /\ (Empty(df) \/ ~HasCols(df, {"High", "Low"})))
    => outcome = "ValueError"

(* High = [1,3,2,5,1], Low = [0.5,2,1,4,0.5]: highs 3 and 5, the low 1 *)
C6_Witness ==
  /\ pc = "swing_done"
  /\ df.rows = <<Bar(One, One \div 2), Bar(3 * One, 2 * One),
                 Bar(2 * One, One), Bar(5 * One, 4 * One),
                 Bar(One, One \div 2)>>
  /\ swings = [support |-> <<One>>, resistance |-> <<3 * One, 5 * One>>]

----------------------------------------------------------------------------
(* Inputs of the clusterer: raw levels around 0.01 and around 1.0 *)

ClusterVals == {996, 1004, One, One + 400, One + 800}

InitCluster ==
  /\ pc = "cluster_call"
  /\ levels \in UNION {[1..n -> ClusterVals] : n \in 0..MaxLevels}
  /\ zones = <<>>
  /\ zones2 = <<>>
  /\ df = NoFrame
  /\ s_r = NoZones
  /\ plan = EmptyDict
  /\ swings = NoSwings
  /\ mtf = <<>>
  /\ patterns = <<>>
  /\ summary = <<>>
  /\ outcome = "none"
  /\ ret = <<>>

ClusterLevels ==
  /\ pc = "cluster_call"
  /\ zones' = cluster_levels(levels)
  /\ pc' = "clustered"
  /\ UNCHANGED <<df, s_r, plan, swings, levels, zones2, mtf,
               patterns, summary, outcome, ret>>

(* a second pass over the output levels of the first *)
ClusterAgain ==
  /\ pc = "clustered"
  /\ zones2' = cluster_levels(Levels(zones))
  /\ pc' = "reclustered"
  /\ UNCHANGED <<df, s_r, plan, swings, levels, zones, mtf,
               patterns, summary, outcome, ret>>

NextCluster == ClusterLevels \/ ClusterAgain

SpecCluster == InitCluster /\ [][NextCluster]_vars

(* C7: clustering is idempotent: a second pass over the output levels      *)
(* yields one single-hit cluster per level, with exactly the same levels.  *)
C7_Idempotent ==
  pc = "reclustered" =>
    /\ Len(zones2) = Len(zones)
    /\ \A i \in 1..Len(zones2) :
         zones2[i].hits = 1 /\ zones2[i].level = zones[i].level

(* C8: the levels of the returned zones are strictly increasing in list    *)
(* order.                                                                   *)
C8_StrictlyIncreasing ==
  pc = "clustered" =>
    \A i \in 1..(Len(zones) - 1) : zones[i].level < zones[i + 1].level

(* the hits of the zones in list order, and the position in the sorted    *)
(* input at which the cluster of zone k starts                              *)
Hits == [k \in 1..Len(zones) |-> zones[k].hits]
ClusterStart(k) == 1 + SeqSum(SubSeq(Hits, 1, k - 1))
ClusterOf(k) ==
  SubSeq(Sorted(levels), ClusterStart(k), ClusterStart(k) + Hits[k] - 1)

(* b is closer than the threshold to the level a before it: |b - a| / a    *)
(* < 0.005, for positive a                                                  *)
Near(a, b) == ThresholdDen * Abs(b - a) < ThresholdNum * a

(* C21: in the sorted input a level is put in the cluster of the level     *)
(* right before it iff their relative distance is below the threshold      *)
(* (the level before it is the last one accepted into the cluster, not its *)
(* first member or its mean); a chain of near neighbours is one cluster    *)
(* even when its ends are further apart than the threshold.                *)
C21_ChainedClusters ==
  (pc = "clustered" /\ levels /= <<>>) =>
    /\ SeqSum(Hits) = Len(levels)
    /\ \A i \in 2..Len(levels) :
         (i \notin {ClusterStart(k) : k \in 2..Len(zones)})
           <=> Near(Sorted(levels)[i - 1], Sorted(levels)[i])

(* 1.0, 1.004, 1.008: one cluster of three whose ends are 0.8% apart *)
C21_Witness ==
  /\ pc = "clustered"
  /\ Sorted(levels) = <<One, One + 400, One + 800>>
  /\ Len(zones) = 1
  /\ zones[1].hits = 3
  /\ ~Near(One, One + 800)

(* the clusters read off the sorted input alone: a run starts at the first *)
(* level and at every level that is not near the one before it              *)
RunStarts ==
  {i \in 1..Len(levels) :
     i = 1 \/ ~Near(Sorted(levels)[i - 1], Sorted(levels)[i])}
RunStart(k) ==
  CHOOSE i \in RunStarts : Cardinality({j \in RunStarts : j <= i}) = k
RunEnd(k) ==
  IF k = Cardinality(RunStarts) THEN Len(levels) ELSE RunStart(k + 1) - 1
Run(k) == SubSeq(Sorted(levels), RunStart(k), RunEnd(k))

(* C22: every zone has hits equal to the number of raw levels of its       *)
(* cluster, strength "very strong" iff hits >= 4, "strong" iff hits is 2   *)
(* or 3, "medium" iff hits = 1, and level equal to the mean of the raw     *)
(* levels rounded to 4 decimals.                                           *)
C22_ZoneGrading ==
  pc = "clustered" =>
    /\ Len(zones) = Cardinality(RunStarts)
    /\ \A k \in 1..Len(zones) :
         /\ zones[k].hits = Len(Run(k))
         /\ zones[k].strength = "very strong" <=> zones[k].hits >= 4
         /\ zones[k].strength = "strong" <=> zones[k].hits \in {2, 3}
         /\ zones[k].strength = "medium" <=> zones[k].hits = 1
         /\ zones[k].level % Grid = 0
         /\ 2 * Abs(Len(Run(k)) * zones[k].level - SeqSum(Run(k)))
              <= Len(Run(k)) * Grid

(* 1.0, 1.0, 1.004, 1.008: one very strong zone of four hits at 1.003 *)
C22_Witness ==
  /\ pc = "clustered"
  /\ Sorted(levels) = <<One, One, One + 400, One + 800>>
  /\ zones = <<[level |-> One + 300, strength |-> "very strong", hits |-> 4]>>

(* C23 as stated: the zones partition the input: every zone has hits >= 1, *)
(* the hits sum to the number of raw levels, each zone's level lies        *)
(* between the smallest and the largest raw level of its cluster, and an   *)
(* empty input gives an empty zone list.                                   *)
C23_LevelInsideCluster ==
  pc = "clustered" =>
    /\ SeqSum(Hits) = Len(levels)
    /\ levels = <<>> => zones = <<>>
    /\ \A k \in 1..Len(zones) :
         /\ zones[k].hits >= 1
         /\ SeqMin(Run(k)) <= zones[k].level
         /\ zones[k].level <= SeqMax(Run(k))

(* C23 amended: the zones partition the input: every zone has hits >= 1,   *)
(* the hits sum to the number of raw levels, an empty input gives an empty *)
(* zone list, and each zone's level, the cluster mean rounded to 4         *)
(* decimals, lies within half a rounding step (0.00005) of the interval    *)
(* from the smallest to the largest raw level of its cluster.              *)
C23_LevelWithinHalfStepOfCluster ==
  pc = "clustered" =>
    /\ SeqSum(Hits) = Len(levels)
    /\ levels = <<>> => zones = <<>>
    /\ \A k \in 1..Len(zones) :
         /\ zones[k].hits >= 1
         /\ 2 * SeqMin(Run(k)) - Grid <= 2 * zones[k].level
         /\ 2 * zones[k].level <= 2 * SeqMax(Run(k)) + Grid

(* the single raw level 0.00996 becomes the zone level 0.01 *)
C23_Witness ==
  /\ pc = "clustered"
  /\ levels = <<996>>
  /\ zones = <<[level |-> 1000, strength |-> "medium", hits |-> 1]>>

----------------------------------------------------------------------------
(* summarizer._safe_float, trend_fn, build_summary *)

(* a >= b on floats *)
FGe(a, b) == a.k /= "nan" /\ b.k /= "nan" /\ ~FLt(a, b)

(* pd.notna(val) is the only filter: the infinities pass float(val) *)
_safe_float(f, col) ==
  IF col \notin f.columns \/ f.rows = <<>> THEN None
  ELSE IF Last(f, col).k \in {"nan", "none"} THEN None
  ELSE Last(f, col)

UnknownTrend(sma50, sma200) ==
  [trend |-> "Unknown", strength |-> "Unknown",
   sma50 |-> sma50, sma200 |-> sma200]

(* abs(sma50 - sma200) / sma200 for sma200 /= 0, in IEEE arithmetic *)
DiffAbs(sma50, sma200) ==
  IF sma200.k = "inf" THEN NaN
  ELSE IF sma50.k = "inf" THEN (IF sma200.v > 0 THEN PosInf ELSE NegInf)
  ELSE LET n == Abs(sma50.v * sma200.d - sma200.v * sma50.d)
           d == sma50.d * sma200.v
       IN  IF d > 0 THEN [k |-> "fin", v |-> n, d |-> d]
           ELSE [k |-> "fin", v |-> -n, d |-> -d]

NeutralBand == [k |-> "fin", v |-> 5, d |-> 1000]
StrongGap == [k |-> "fin", v |-> 30, d |-> 1000]
ModerateGap == [k |-> "fin", v |-> 15, d |-> 1000]

(* trend_fn without its test of a zero sma200 *)
trend_fn_without_zero_guard(f) ==
  LET sma50 == _safe_float(f, "SMA50")
      sma200 == _safe_float(f, "SMA200")
  IN  IF sma50 = None \/ sma200 = None THEN UnknownTrend(None, None)
      ELSE
        LET trend == IF FLt(sma200, sma50) THEN "Bullish"
                     ELSE IF FLt(sma50, sma200) THEN "Bearish"
                     ELSE "Neutral"
            diff_abs == DiffAbs(sma50, sma200)
        IN  [trend |-> IF FLt(diff_abs, NeutralBand) THEN "Neutral" ELSE trend,
             strength |->
               IF FLt(diff_abs, NeutralBand) THEN "Weak"
               ELSE IF FGe(diff_abs, StrongGap) THEN "Strong"
               ELSE IF FGe(diff_abs, ModerateGap) THEN "Moderate"
               ELSE "Weak",
             sma50 |-> sma50,
             sma200 |-> sma200]

trend_fn(f) ==
  LET sma50 == _safe_float(f, "SMA50")
      sma200 == _safe_float(f, "SMA200")
  IN  IF sma50 = None \/ sma200 = None THEN UnknownTrend(None, None)
      ELSE IF sma200.k = "fin" /\ sma200.v = 0
      THEN UnknownTrend(sma50, sma200)
      ELSE
        LET trend == IF FLt(sma200, sma50) THEN "Bullish"
                     ELSE IF FLt(sma50, sma200) THEN "Bearish"
                     ELSE "Neutral"
            diff_abs == DiffAbs(sma50, sma200)
        IN  [trend |-> IF FLt(diff_abs, NeutralBand) THEN "Neutral" ELSE trend,
             strength |->
               IF FLt(diff_abs, NeutralBand) THEN "Weak"
               ELSE IF FGe(diff_abs, StrongGap) THEN "Strong"
               ELSE IF FGe(diff_abs, ModerateGap) THEN "Moderate"
               ELSE "Weak",
             sma50 |-> sma50,
             sma200 |-> sma200]

(* every timeframe assessed from the frame of one and the same timeframe *)
safe_mtf_trend_shared(mtf_dict) ==
  [tf \in DOMAIN mtf_dict |->
     LET mdf == mtf_dict[CHOOSE t \in DOMAIN mtf_dict : TRUE]
     IN  IF mdf.frame THEN trend_fn(mdf) ELSE UnknownTrend(None, None)]

(* mtf_dict maps a timeframe to a DataFrame or to something else *)
safe_mtf_trend(mtf_dict) ==
  [tf \in DOMAIN mtf_dict |->
     IF mtf_dict[tf].frame THEN trend_fn(mtf_dict[tf])
     ELSE UnknownTrend(None, None)]

build_summary(ticker, f, mtf_dict, pattern_list, sr, trade_plan) ==
  [ticker |-> ticker,
   indicators |->
     [rsi |-> _safe_float(f, "RSI"),
      macd |-> [macd |-> _safe_float(f, "MACD"),
                signal |-> _safe_float(f, "MACD_Signal"),
                hist |-> _safe_float(f, "MACD_Hist")],
      bollinger |-> [upper |-> _safe_float(f, "BB_UPPER"),
                     mid |-> _safe_float(f, "BB_MID"),
                     lower |-> _safe_float(f, "BB_LOWER")],
      atr |-> _safe_float(f, "ATR")],
   trend |-> safe_mtf_trend(mtf_dict),
   patterns |-> pattern_list,
   support_resistance |-> IF sr = <<>> THEN NoZones ELSE sr,
   trade_plan |-> trade_plan]

----------------------------------------------------------------------------
(* Inputs of the summary assembler *)

IndCols ==
  {"RSI", "MACD", "MACD_Signal", "MACD_Hist",
   "BB_UPPER", "BB_MID", "BB_LOWER", "ATR"}

BaseRow ==
  [c \in IndCols |->
     CASE c = "RSI" -> Fin(50)
       [] c \in {"MACD", "MACD_Signal", "MACD_Hist"} -> Fin(0)
       [] c = "BB_UPPER" -> Fin(One + 200)
       [] c = "BB_MID" -> Fin(One)
       [] c = "BB_LOWER" -> Fin(One - 200)
       [] OTHER -> Fin(100)]

(* last-bar values that are not finite numbers *)
Specials == {NaN, PosInf, NegInf, None}

SummaryFrames ==
  {Frame(IndCols, <<BaseRow>>), Frame(IndCols, <<>>), Frame({}, <<>>)}
    \cup {Frame(IndCols \ {c}, <<[x \in IndCols \ {c} |-> BaseRow[x]]>>) :
            c \in IndCols}
    \cup {Frame(IndCols, <<BaseRow, [BaseRow EXCEPT ![c] = v]>>) :
            c \in IndCols, v \in Specials}
    \cup {Frame(IndCols, <<[BaseRow EXCEPT ![c] = v], BaseRow>>) :
            c \in {"RSI"}, v \in Specials}

SmaFrame(a, b) ==
  Frame({"SMA50", "SMA200"}, <<[SMA50 |-> a, SMA200 |-> b]>>)

SmaPairs ==
  {<<Fin(One + 3000), Fin(One)>>, <<Fin(One - 2000), Fin(One)>>,
   <<Fin(One + 400), Fin(One)>>, <<Fin(One), Fin(0)>>,
   <<PosInf, Fin(One)>>, <<Fin(One), PosInf>>, <<NaN, Fin(One)>>}

MtfFrames ==
  {NoFrame, Frame({}, <<>>), Frame({"Close"}, <<CloseRow(Fin(One))>>)}
    \cup {SmaFrame(p[1], p[2]) : p \in SmaPairs}

Timeframes == {"1d", "1wk"}

SomePlan == [note |-> NoResistanceNote]
SomeZones ==
  [support_zones |-> <<Zone(90 * One, 2)>>,
   resistance_zones |-> <<Zone(110 * One, 1)>>]
SomePatterns == <<[pattern |-> "Hammer", date |-> 2]>>

InitSummary ==
  /\ pc = "summary_call"
  /\ df \in SummaryFrames
  /\ mtf \in UNION {[S -> MtfFrames] : S \in SUBSET Timeframes}
  /\ \E given \in BOOLEAN :
       /\ patterns = IF given THEN SomePatterns ELSE <<>>
       /\ s_r = IF given THEN SomeZones ELSE <<>>
       /\ plan = IF given THEN SomePlan ELSE EmptyDict
  /\ swings = NoSwings
  /\ levels = <<>>
  /\ zones = <<>>
  /\ zones2 = <<>>
  /\ summary = <<>>
  /\ outcome = "none"
  /\ ret = <<>>

BuildSummary ==
  /\ pc = "summary_call"
  /\ summary' = build_summary("TICK", df, mtf, patterns, s_r, plan)
  /\ pc' = "summary_done"
  /\ UNCHANGED <<df, s_r, plan, swings, levels, zones, zones2, mtf, patterns,
                 outcome, ret>>

NextSummary == BuildSummary

SpecSummary == InitSummary /\ [][NextSummary]_vars

FiniteOrNull(v) == v = None \/ IsFin(v)

(* C9: every indicator value, SMA value and trend value of the Summary is  *)
(* a finite number or null: a last-bar value that is absent, from an empty *)
(* column, NaN or +/-Infinity is extracted as null.                        *)
C9_SummaryFiniteOrNull ==
  pc = "summary_done" =>
    /\ FiniteOrNull(summary.indicators.rsi)
    /\ FiniteOrNull(summary.indicators.macd.macd)
    /\ FiniteOrNull(summary.indicators.macd.signal)
    /\ FiniteOrNull(summary.indicators.macd.hist)
    /\ FiniteOrNull(summary.indicators.bollinger.upper)
    /\ FiniteOrNull(summary.indicators.bollinger.mid)
    /\ FiniteOrNull(summary.indicators.bollinger.lower)
    /\ FiniteOrNull(summary.indicators.atr)
    /\ \A tf \in DOMAIN summary.trend :
         /\ FiniteOrNull(summary.trend[tf].sma50)
         /\ FiniteOrNull(summary.trend[tf].sma200)

(* the trend entry of timeframe tf when tf is the only one supplied *)
AssessedAlone(tf) ==
  build_summary("TICK", df, [t \in {tf} |-> mtf[tf]], patterns, s_r,
                plan).trend[tf]

(* C25: the trend map has exactly the timeframe keys of the supplied       *)
(* mapping (none when the mapping is empty); each entry is computed from   *)
(* its own frame only, so it is the entry the timeframe gets when supplied *)
(* alone; an entry that is not a frame, or a frame without the SMA50 or    *)
(* the SMA200 column, is Unknown/Unknown with null SMAs.                   *)
C25_TrendPerTimeframe ==
  pc = "summary_done" =>
    /\ DOMAIN summary.trend = DOMAIN mtf
    /\ \A tf \in DOMAIN mtf :
         /\ summary.trend[tf] = AssessedAlone(tf)
         /\ (~mtf[tf].frame \/ ~HasCols(mtf[tf], {"SMA50", "SMA200"})) =>
              summary.trend[tf] = UnknownTrend(None, None)

(* a daily frame with its SMAs next to a weekly frame holding Close only *)
C25_Witness ==
  /\ pc = "summary_done"
  /\ DOMAIN mtf = Timeframes
  /\ mtf["1d"] = SmaFrame(Fin(One + 3000), Fin(One))
  /\ mtf["1wk"] = Frame({"Close"}, <<CloseRow(Fin(One))>>)
  /\ summary.trend["1d"].trend = "Bullish"
  /\ summary.trend["1wk"] = UnknownTrend(None, None)

----------------------------------------------------------------------------
(* indicators: rsi, macd, bollinger, atr, calculate_smas.  Each operation  *)
(* yields how the call ended and the frame it leaves behind.               *)

RECURSIVE GCD(_, _)
GCD(a, b) == IF b = 0 THEN a ELSE GCD(b, a % b)

(* the float n / d, d > 0, in lowest terms *)
Rat(n, d) ==
  LET g == GCD(Abs(n), d)
  IN  [k |-> "fin", v |-> (IF n < 0 THEN -(Abs(n) \div g) ELSE n \div g),
       d |-> d \div g]

(* floor of the square root *)
RECURSIVE IsqrtFrom(_, _)
IsqrtFrom(n, r) == IF (r + 1) * (r + 1) > n THEN r ELSE IsqrtFrom(n, r + 1)
Isqrt(n) == IsqrtFrom(n, 0)

(* exact sums, differences and multiples p / q of finite floats *)
RatAdd(a, b) ==
  LET g == GCD(a.d, b.d)
  IN  Rat(a.v * (b.d \div g) + b.v * (a.d \div g), (a.d \div g) * b.d)
RatSub(a, b) == RatAdd(a, [b EXCEPT !.v = -b.v])
RatMul(a, p, q) == Rat(a.v * p, a.d * q)
RatAbs(a) == [a EXCEPT !.v = Abs(a.v)]
RatMax(a, b) == IF FLt(a, b) THEN b ELSE a

(* ewm(alpha = num / den, adjust=False).mean() of a series without NaN:   *)
(* y[0] = x[0], y[t] = (1 - alpha) * y[t-1] + alpha * x[t]                  *)
RECURSIVE Ewm(_, _, _)
Ewm(xs, num, den) ==
  IF Len(xs) <= 1 THEN xs
  ELSE LET ys == Ewm(SubSeq(xs, 1, Len(xs) - 1), num, den)
       IN  Append(ys, RatAdd(RatMul(ys[Len(ys)], den - num, den),
                             RatMul(xs[Len(xs)], num, den)))

(* ewm(com=window - 1, adjust=False, min_periods=window).mean(): alpha is  *)
(* 1 / window and the first window - 1 entries are NaN                      *)
Wilder(xs, window) ==
  LET ys == Ewm(xs, 1, window)
  IN  [i \in 1..Len(xs) |-> IF i < window THEN NaN ELSE ys[i]]

(* ewm(span=span, adjust=False).mean(): alpha is 2 / (span + 1) *)
EwmSpan(xs, span) == Ewm(xs, 2, span + 1)

(* the second average over the first *)
DivideSwapped(a, b) ==
  IF a.k = "nan" \/ b.k = "nan" THEN NaN
  ELSE IF a.v = 0 THEN (IF b.v = 0 THEN NaN ELSE PosInf)
  ELSE Rat(b.v * a.d, b.d * a.v)

(* np.divide of two non-negative averages, NaN where either is NaN *)
Divide(a, b) ==
  IF a.k = "nan" \/ b.k = "nan" THEN NaN
  ELSE IF b.v = 0 THEN (IF a.v = 0 THEN NaN ELSE PosInf)
  ELSE Rat(a.v * b.d, a.d * b.v)

FillNa(x, v) == IF x.k = "nan" THEN v ELSE x
Clip(x, lo, hi) == IF FLt(x, lo) THEN lo ELSE IF FLt(hi, x) THEN hi ELSE x
ClipLower(x, lo) == IF FLt(x, lo) THEN lo ELSE x

CloseSeq(f) == [i \in 1..Len(f.rows) |-> f.rows[i].Close]

(* np.diff(close, prepend=close[0]) *)
Delta(close) ==
  [i \in 1..Len(close) |->
     IF i = 1 THEN Fin(0) ELSE RatSub(close[i], close[i - 1])]
(* np.where(delta > 0, delta, 0) and np.where(delta < 0, -delta, 0) *)
Gain(delta) ==
  [i \in 1..Len(delta) |-> IF FLt(Fin(0), delta[i]) THEN delta[i] ELSE Fin(0)]
Loss(delta) ==
  [i \in 1..Len(delta) |->
     IF FLt(delta[i], Fin(0)) THEN RatSub(Fin(0), delta[i]) ELSE Fin(0)]

(* rs[np.isinf(rs)] = 100 *)
ForceInfAndNaN(rs) == IF rs.k \in {"inf", "nan"} THEN Fin(100) ELSE rs
ForceInf(rs) == IF rs.k = "inf" THEN Fin(100) ELSE rs

(* 100 - (100 / (1 + rs)) *)
RsiOf(rs) ==
  IF rs.k = "nan" THEN NaN
  ELSE RatSub(Fin(100), Rat(100 * rs.d, rs.d + rs.v))

(* the RSI column of a series of at least two bars *)
RsiSeries(f, window) ==
  LET delta == Delta(CloseSeq(f))
      avg_gain == Wilder(Gain(delta), window)
      avg_loss == Wilder(Loss(delta), window)
  IN  [i \in 1..Len(delta) |->
         Clip(FillNa(RsiOf(ForceInf(Divide(avg_gain[i], avg_loss[i]))),
                     Fin(50)),
              Fin(0), Fin(100))]

(* tr = max(high - low, |high - prev close|, |low - prev close|), and     *)
(* tr[0] = high[0] - low[0]                                                 *)
TrueRange(f) ==
  [i \in 1..Len(f.rows) |->
     LET h_l == RatSub(f.rows[i].High, f.rows[i].Low)
     IN  IF i = 1 THEN h_l
         ELSE RatMax(h_l,
                RatMax(RatAbs(RatSub(f.rows[i].High, f.rows[i - 1].Close)),
                       RatAbs(RatSub(f.rows[i].Low, f.rows[i - 1].Close))))]

(* the warm-up rows filled with 0 *)
AtrSeriesZeroFill(f, window) ==
  LET atr_series == Wilder(TrueRange(f), window)
  IN  [i \in 1..Len(f.rows) |->
         ClipLower(FillNa(atr_series[i], Fin(0)), Fin(0))]

(* the ATR column of a series of at least window bars: the warm-up rows    *)
(* are back-filled with the first valid average                             *)
AtrSeries(f, window) ==
  LET atr_series == Wilder(TrueRange(f), window)
      first_valid_atr == atr_series[window]
  IN  [i \in 1..Len(f.rows) |->
         ClipLower(FillNa(atr_series[i], first_valid_atr), Fin(0))]

(* the slow average minus the fast one *)
MacdSeriesSwapped(f, fast, slow) ==
  LET close == CloseSeq(f)
      exp_fast == EwmSpan(close, fast)
      exp_slow == EwmSpan(close, slow)
  IN  [i \in 1..Len(close) |-> RatSub(exp_slow[i], exp_fast[i])]

(* exp_fast - exp_slow of a series of at least slow bars *)
MacdSeries(f, fast, slow) ==
  LET close == CloseSeq(f)
      exp_fast == EwmSpan(close, fast)
      exp_slow == EwmSpan(close, slow)
  IN  [i \in 1..Len(close) |-> RatSub(exp_fast[i], exp_slow[i])]
(* df["MACD"] - df["MACD_Signal"] *)
Minus(xs, ys) == [i \in 1..Len(xs) |-> RatSub(xs[i], ys[i])]

Returned(f) == [out |-> "returned", f |-> f]
Raised(f) == [out |-> "ValueError", f |-> f]

(* df[col] = vals *)
WithColumn(f, col, vals) ==
  Frame(f.columns \cup {col},
        [i \in 1..Len(f.rows) |->
           [c \in f.columns \cup {col} |->
              IF c = col THEN vals[i] ELSE f.rows[i][c]]])

(* df[col] = x for a scalar x *)
WithConstant(f, col, x) ==
  WithColumn(f, col, [i \in 1..Len(f.rows) |-> x])

NoClose(f) == "Close" \notin f.columns \/ f.rows = <<>>

(* rsi with the zero default of its siblings on a single bar *)
rsi_zero_default(f, window) ==
  IF NoClose(f) THEN Raised(f)
  ELSE CASE Len(f.rows) < 2 -> Returned(WithConstant(f, "RSI", Fin(0)))
         [] Len(f.rows) >= 2 /\ Len(f.rows) < window ->
              Returned(WithConstant(f, "RSI", Fin(50)))
         [] Len(f.rows) >= 2 /\ Len(f.rows) >= window ->
              Returned(WithColumn(f, "RSI", RsiSeries(f, window)))

(* Below min_periods = window rows the smoothed averages are all NaN, so   *)
(* the fillna(50.0) decides every bar.                                      *)
rsi(f, window) ==
  IF NoClose(f) THEN Raised(f)
  ELSE CASE Len(f.rows) < 2 -> Returned(WithConstant(f, "RSI", Fin(50)))
         [] Len(f.rows) >= 2 /\ Len(f.rows) < window ->
              Returned(WithConstant(f, "RSI", Fin(50)))
         [] Len(f.rows) >= 2 /\ Len(f.rows) >= window ->
              Returned(WithColumn(f, "RSI", RsiSeries(f, window)))

macd(f, fast, slow, signal) ==
  IF NoClose(f) THEN Raised(f)
  ELSE CASE Len(f.rows) < slow ->
              Returned(WithConstant(
                WithConstant(WithConstant(f, "MACD", Fin(0)),
                             "MACD_Signal", Fin(0)),
                "MACD_Hist", Fin(0)))
         [] Len(f.rows) >= slow ->
              LET macd_line == MacdSeries(f, fast, slow)
                  macd_signal == EwmSpan(macd_line, signal)
              IN  Returned(WithColumn(
                    WithColumn(WithColumn(f, "MACD", macd_line),
                               "MACD_Signal", macd_signal),
                    "MACD_Hist", Minus(macd_line, macd_signal)))

(* rows lo .. i of the Close column, as integers of price units *)
Window(f, i, w) ==
  LET lo == IF i - w + 1 < 1 THEN 1 ELSE i - w + 1
  IN  [j \in 1..(i - lo + 1) |-> f.rows[lo + j - 1].Close.v]

(* rolling(w, min_periods=1).mean() at row i *)
RollingMean(f, i, w) ==
  LET xs == Window(f, i, w) IN Rat(SeqSum(xs), Len(xs))

(* Len(xs) times the rolling population standard deviation (ddof=0) at    *)
(* row i, cut to a whole number of price units                             *)
RollingStdTimesCount(f, i, w) ==
  LET xs == Window(f, i, w)
      sq == [j \in 1..Len(xs) |-> xs[j] * xs[j]]
  IN  Isqrt(Len(xs) * SeqSum(sq) - SeqSum(xs) * SeqSum(xs))

bollinger(f, window, num_std) ==
  IF NoClose(f) THEN Raised(f)
  ELSE LET n == Len(f.rows)
           mid == [i \in 1..n |-> RollingMean(f, i, window)]
           band(i, sign) ==
             LET xs == Window(f, i, window)
             IN  Rat(SeqSum(xs)
                       + sign * num_std * RollingStdTimesCount(f, i, window),
                     Len(xs))
       IN  Returned(WithColumn(
             WithColumn(WithColumn(f, "BB_MID", mid),
                        "BB_UPPER", [i \in 1..n |-> band(i, 1)]),
             "BB_LOWER", [i \in 1..n |-> band(i, -1)]))

(* atr with -1 standing for "too short a series" *)
atr_short_sentinel(f, window) ==
  IF ~HasCols(f, {"High", "Low", "Close"}) THEN Raised(f)
  ELSE CASE Len(f.rows) < 2 -> Returned(WithConstant(f, "ATR", Fin(-1)))
         [] Len(f.rows) >= 2 /\ Len(f.rows) < window ->
              Returned(WithConstant(f, "ATR", Fin(0)))
         [] Len(f.rows) >= 2 /\ Len(f.rows) >= window ->
              Returned(WithColumn(f, "ATR", AtrSeries(f, window)))

(* Below min_periods = window rows the smoothed true range is all NaN and  *)
(* there is no first valid value, so the fills end at 0.                   *)
atr(f, window) ==
  IF ~HasCols(f, {"High", "Low", "Close"}) THEN Raised(f)
  ELSE CASE Len(f.rows) < 2 -> Returned(WithConstant(f, "ATR", Fin(0)))
         [] Len(f.rows) >= 2 /\ Len(f.rows) < window ->
              Returned(WithConstant(f, "ATR", Fin(0)))
         [] Len(f.rows) >= 2 /\ Len(f.rows) >= window ->
              Returned(WithColumn(f, "ATR", AtrSeries(f, window)))

(* the averages with min_periods = window: NaN until the window is full *)
calculate_smas_full_window(f) ==
  IF NoClose(f) THEN Returned(f)
  ELSE LET n == Len(f.rows)
           mean(i, w) == IF i < w THEN NaN ELSE RollingMean(f, i, w)
       IN  Returned(WithColumn(
             WithColumn(f, "SMA50", [i \in 1..n |-> mean(i, SmaShort)]),
             "SMA200", [i \in 1..n |-> mean(i, SmaLong)]))

(* a frame without a usable Close column is handed back as it came *)
calculate_smas(f) ==
  IF NoClose(f) THEN Returned(f)
  ELSE LET n == Len(f.rows)
       IN  Returned(WithColumn(
             WithColumn(f, "SMA50",
                        [i \in 1..n |-> RollingMean(f, i, SmaShort)]),
             "SMA200", [i \in 1..n |-> RollingMean(f, i, SmaLong)]))

----------------------------------------------------------------------------
(* Inputs of the indicator engine: bars (High, Low, Close) in price units, *)
(* shown through any subset of the three columns                            *)

IndBars == {<<12, 10, 11>>, <<14, 11, 13>>}

PriceCols == {"High", "Low", "Close"}

BarRow(b, cols) ==
  [c \in cols |->
     Fin(IF c = "High" THEN b[1] ELSE IF c = "Low" THEN b[2] ELSE b[3])]

IndFrames ==
  {Frame(cols, [i \in 1..Len(bs) |-> BarRow(bs[i], cols)]) :
     cols \in (SUBSET PriceCols) \ {{}},
     bs \in UNION {[1..n -> IndBars] : n \in 0..MaxBars}}
    \cup {Frame({}, <<>>)}

InitIndicators ==
  /\ pc = "ind_call"
  /\ df \in IndFrames
  /\ outcome = "none"
  /\ s_r = NoZones
  /\ plan = EmptyDict
  /\ swings = NoSwings
  /\ levels = <<>>
  /\ zones = <<>>
  /\ zones2 = <<>>
  /\ mtf = <<>>
  /\ patterns = <<>>
  /\ summary = <<>>
  /\ ret = <<>>

(* one call of an operation on the frame; an exception ends the pass *)
Call(op, r) ==
  /\ outcome /= "ValueError"
  /\ pc \in {"ind_call", "rsi", "macd", "bollinger", "atr", "calculate_smas"}
  /\ pc' = op
  /\ df' = r.f
  /\ outcome' = r.out
  /\ UNCHANGED <<s_r, plan, swings, levels, zones, zones2, mtf, patterns,
                 summary, ret>>

Rsi == Call("rsi", rsi(df, RsiWindow))
Macd == Call("macd", macd(df, MacdFast, MacdSlow, MacdSignal))
Bollinger == Call("bollinger", bollinger(df, BollingerWindow, BollingerNumStd))
Atr == Call("atr", atr(df, AtrWindow))
CalculateSmas == Call("calculate_smas", calculate_smas(df))

NextIndicators == Rsi \/ Macd \/ Bollinger \/ Atr \/ CalculateSmas

SpecIndicators == InitIndicators /\ [][NextIndicators]_vars

(* C10: every Indicator Engine operation signals an error when its         *)
(* required column is missing (Close; High, Low and Close for atr); none   *)
(* returns normally then.                                                   *)
C10_MissingColumnRaises ==
  /\ (pc \in {"rsi", "macd", "bollinger", "calculate_smas"}
        /\ "Close" \notin df.columns) => outcome = "ValueError"
  /\ (pc = "atr" /\ ~HasCols(df, {"High", "Low", "Close"}))
       => outcome = "ValueError"

(* C13: on a series too short for a window the defaults stand: with       *)
(* exactly one bar rsi sets RSI = 50 and atr sets ATR = 0, and with fewer  *)
(* bars than the slow span macd sets MACD, MACD_Signal and MACD_Hist to 0  *)
(* at every bar; each of these calls returns normally.                     *)
C13_ShortSeriesDefaults ==
  /\ (pc = "rsi" /\ "Close" \in df.columns /\ Len(df.rows) = 1) =>
       /\ outcome = "returned"
       /\ df.rows[1].RSI = Fin(50)
  /\ (pc = "atr" /\ HasCols(df, PriceCols) /\ Len(df.rows) = 1) =>
       /\ outcome = "returned"
       /\ df.rows[1].ATR = Fin(0)
  /\ (pc = "macd" /\ "Close" \in df.columns
        /\ Len(df.rows) >= 1 /\ Len(df.rows) < MacdSlow) =>
       /\ outcome = "returned"
       /\ \A i \in 1..Len(df.rows) :
            /\ df.rows[i].MACD = Fin(0)
            /\ df.rows[i].MACD_Signal = Fin(0)
            /\ df.rows[i].MACD_Hist = Fin(0)

(* one bar, all three operations run, the last of them rsi *)
C13_Witness ==
  /\ pc = "rsi"
  /\ outcome = "returned"
  /\ Len(df.rows) = 1
  /\ {"RSI", "ATR", "MACD", "MACD_Signal", "MACD_Hist"} \subseteq df.columns
  /\ df.rows[1].RSI = Fin(50)
  /\ df.rows[1].ATR = Fin(0)
  /\ df.rows[1].MACD_Hist = Fin(0)

----------------------------------------------------------------------------
(* The indicator engine past its warm-up.  The windows are parameters of   *)
(* the operations; WarmWindow stands for them so that a series of MaxBars  *)
(* bars runs through the smoothed averages: rsi, atr and bollinger take    *)
(* WarmWindow, macd takes fast = WarmWindow - 1, slow = WarmWindow and     *)
(* signal = WarmWindow - 1.  Bars are (High, Low, Close) in price units    *)
(* with Low <= Close <= High; one of them is flat.                         *)

EngineBars == {<<10, 10, 10>>, <<21, 19, 20>>, <<22, 20, 21>>, <<23, 21, 22>>}

EngineFrames ==
  {Frame(PriceCols, [i \in 1..Len(bs) |-> BarRow(bs[i], PriceCols)]) :
     bs \in UNION {[1..n -> EngineBars] : n \in 1..MaxBars}}

InitEngine ==
  /\ pc = "engine_call"
  /\ df \in EngineFrames
  /\ outcome = "none"
  /\ s_r = NoZones
  /\ plan = EmptyDict
  /\ swings = NoSwings
  /\ levels = <<>>
  /\ zones = <<>>
  /\ zones2 = <<>>
  /\ mtf = <<>>
  /\ patterns = <<>>
  /\ summary = <<>>
  /\ ret = <<>>

(* one call of an operation on the frame; the operations are independent  *)
(* and run in any order                                                     *)
EngineCall(r) ==
  /\ pc \in {"engine_call", "engine_run"}
  /\ outcome /= "ValueError"
  /\ pc' = "engine_run"
  /\ df' = r.f
  /\ outcome' = r.out
  /\ UNCHANGED <<s_r, plan, swings, levels, zones, zones2, mtf, patterns,
                 summary, ret>>

EngineRsi == EngineCall(rsi(df, WarmWindow))
EngineMacd ==
  EngineCall(macd(df, WarmWindow - 1, WarmWindow, WarmWindow - 1))
EngineBollinger == EngineCall(bollinger(df, WarmWindow, BollingerNumStd))
EngineAtr == EngineCall(atr(df, WarmWindow))

NextEngine == EngineRsi \/ EngineMacd \/ EngineBollinger \/ EngineAtr

SpecEngine == InitEngine /\ [][NextEngine]_vars

(* C12: for every non-empty series with Low <= High, once rsi and atr have *)
(* run, RSI lies in [0, 100] and ATR is at least 0 at every bar.           *)
C12_RsiAtrRanges ==
  /\ "RSI" \in df.columns =>
       \A i \in 1..Len(df.rows) :
         /\ IsFin(df.rows[i].RSI)
         /\ FGe(df.rows[i].RSI, Fin(0))
         /\ FGe(Fin(100), df.rows[i].RSI)
  /\ "ATR" \in df.columns =>
       \A i \in 1..Len(df.rows) :
         IsFin(df.rows[i].ATR) /\ FGe(df.rows[i].ATR, Fin(0))

(* a falling bar after the warm-up: RSI strictly inside the range and a    *)
(* positive ATR                                                             *)
C12_Witness ==
  /\ pc = "engine_run"
  /\ {"RSI", "ATR"} \subseteq df.columns
  /\ Len(df.rows) > WarmWindow
  /\ \E i \in 1..Len(df.rows) :
       /\ FLt(Fin(0), df.rows[i].RSI)
       /\ FLt(df.rows[i].RSI, Fin(50))
       /\ FLt(Fin(0), df.rows[i].ATR)

Largest(a, b, c) == CHOOSE m \in {a, b, c} : \A x \in {a, b, c} : x <= m

(* the true range of bar i in price units, from the bars themselves *)
Tr(i) ==
  LET h == df.rows[i].High.v
      l == df.rows[i].Low.v
  IN  IF i = 1 THEN h - l
      ELSE LET c == df.rows[i - 1].Close.v
           IN  Largest(h - l, Abs(h - c), Abs(l - c))

(* Wilder's average of the true ranges up to bar i: the first true range,  *)
(* then ((window - 1) * previous + true range) / window                     *)
RECURSIVE SmoothedTr(_)
SmoothedTr(i) ==
  IF i = 1 THEN Fin(Tr(1))
  ELSE RatAdd(RatMul(SmoothedTr(i - 1), WarmWindow - 1, WarmWindow),
              Rat(Tr(i), WarmWindow))

(* C26: atr fills the warm-up gap with the first computed value: with at   *)
(* least window bars every bar before index window - 1 holds the ATR of    *)
(* index window - 1; with 2 to window - 1 bars ATR is 0 at every bar; the  *)
(* true range of bar 0 is high - low and of a later bar max(high - low,    *)
(* |high - prev close|, |low - prev close|).                               *)
C26_AtrWarmUpFill ==
  (pc = "engine_run" /\ "ATR" \in df.columns) =>
    /\ Len(df.rows) >= WarmWindow =>
         \A i \in 1..Len(df.rows) :
           df.rows[i].ATR =
             IF i < WarmWindow THEN SmoothedTr(WarmWindow) ELSE SmoothedTr(i)
    /\ (Len(df.rows) >= 2 /\ Len(df.rows) < WarmWindow) =>
         \A i \in 1..Len(df.rows) : df.rows[i].ATR = Fin(0)

(* at least window bars: the warm-up bars hold the first computed value,   *)
(* which is positive and is not the first bar's own true range              *)
C26_Witness ==
  /\ pc = "engine_run"
  /\ "ATR" \in df.columns
  /\ Len(df.rows) >= WarmWindow
  /\ FLt(Fin(0), df.rows[1].ATR)
  /\ df.rows[1].ATR = df.rows[WarmWindow].ATR
  /\ df.rows[1].ATR /= Fin(Tr(1))

(* every bar has Open = High = Low = Close = c *)
Flat(f, c) ==
  \A i \in 1..Len(f.rows) :
    f.rows[i].High = c /\ f.rows[i].Low = c /\ f.rows[i].Close = c

(* C14: on a flat series at price c the engine settles to RSI = 50,        *)
(* MACD_Hist = 0, BB_UPPER = BB_MID = BB_LOWER = c and ATR = 0, at every   *)
(* bar and so at the final ones, and every call returns normally.          *)
C14_FlatSeries ==
  \A c \in {df.rows[1].Close} :
    (pc = "engine_run" /\ Flat(df, c)) =>
      /\ outcome = "returned"
      /\ \A i \in 1..Len(df.rows) :
           /\ "RSI" \in df.columns => df.rows[i].RSI = Fin(50)
           /\ "MACD_Hist" \in df.columns => df.rows[i].MACD_Hist = Fin(0)
           /\ "BB_MID" \in df.columns =>
                /\ df.rows[i].BB_UPPER = c
                /\ df.rows[i].BB_MID = c
                /\ df.rows[i].BB_LOWER = c
           /\ "ATR" \in df.columns => df.rows[i].ATR = Fin(0)

(* a flat series longer than every window, all four operations run *)
C14_Witness ==
  /\ pc = "engine_run"
  /\ Flat(df, Fin(10))
  /\ Len(df.rows) > WarmWindow
  /\ {"RSI", "MACD_Hist", "BB_MID", "ATR"} \subseteq df.columns
  /\ Last(df, "RSI") = Fin(50)
  /\ Last(df, "MACD_Hist") = Fin(0)
  /\ Last(df, "BB_UPPER") = Fin(10)
  /\ Last(df, "ATR") = Fin(0)

(* the rise into bar i, i >= 2 *)
Rise(f, i) == f.rows[i].Close.v - f.rows[i - 1].Close.v

Rising(f) == \A i \in 2..Len(f.rows) : Rise(f, i) >= 0
StrictlyRising(f) == \A i \in 2..Len(f.rows) : Rise(f, i) > 0
(* no rise is smaller than the one before it *)
RisesNeverShrink(f) == \A i \in 3..Len(f.rows) : Rise(f, i) >= Rise(f, i - 1)

(* macd has run on at least slow bars *)
MacdWarm ==
  /\ pc = "engine_run"
  /\ "MACD_Hist" \in df.columns
  /\ Len(df.rows) >= WarmWindow

(* C15 as stated: for every monotonically rising Close series with at     *)
(* least slow bars, MACD_Hist is non-negative at every bar from the slow   *)
(* span on, whatever the sizes of the individual rises.                    *)
C15_HistNonNegative ==
  (MacdWarm /\ StrictlyRising(df)) =>
    \A i \in WarmWindow..Len(df.rows) : FGe(df.rows[i].MACD_Hist, Fin(0))

(* C15 amended: for every monotonically rising Close series with at least *)
(* slow bars, MACD (fast minus slow average) is non-negative at every bar, *)
(* and MACD_Hist is non-negative at every bar when no rise is smaller than *)
(* the one before it; shrinking rises can turn MACD_Hist negative.         *)
C15_HistNonNegativeUnlessRisesShrink ==
  (MacdWarm /\ Rising(df)) =>
    /\ \A i \in 1..Len(df.rows) : FGe(df.rows[i].MACD, Fin(0))
    /\ RisesNeverShrink(df) =>
         \A i \in 1..Len(df.rows) : FGe(df.rows[i].MACD_Hist, Fin(0))

(* a strictly rising ramp past the slow span with a positive histogram *)
C15_Witness ==
  /\ MacdWarm
  /\ Len(df.rows) >= 3
  /\ StrictlyRising(df)
  /\ RisesNeverShrink(df)
  /\ FLt(Fin(0), Last(df, "MACD_Hist"))

(* rsi has run on a strictly rising series that clears the warm-up *)
RsiWarmRising ==
  /\ pc = "engine_run"
  /\ "RSI" \in df.columns
  /\ Len(df.rows) >= WarmWindow
  /\ StrictlyRising(df)

(* 100 - 100 / (1 + 100) *)
RsiAtForcedRatio == Rat(10000, 101)

(* C16 as stated: on a strictly rising series longer than the warm-up     *)
(* window RSI past warm-up moves toward 100 as the series lengthens: the   *)
(* last bar is closer to 100 than the first bar past warm-up.              *)
C16_RsiApproachesHundred ==
  (RsiWarmRising /\ Len(df.rows) > WarmWindow) =>
    FLt(df.rows[WarmWindow].RSI, Last(df, "RSI"))

(* C16 amended: on a strictly rising series that clears the warm-up       *)
(* window the average loss is zero, the ratio is forced to 100 and RSI is  *)
(* 100 - 100/101 at every bar past warm-up, however long the series; the   *)
(* warm-up bars hold the fill value 50.                                    *)
C16_RsiPinnedBelowHundred ==
  RsiWarmRising =>
    \A i \in 1..Len(df.rows) :
      df.rows[i].RSI = IF i < WarmWindow THEN Fin(50) ELSE RsiAtForcedRatio

(* the longest strictly rising series: its bars past warm-up all hold    *)
(* the same value                                                           *)
C16_Witness ==
  /\ RsiWarmRising
  /\ Len(df.rows) = Cardinality(EngineBars)
  /\ df.rows[WarmWindow].RSI = RsiAtForcedRatio
  /\ Last(df, "RSI") = RsiAtForcedRatio

----------------------------------------------------------------------------
(* patterns.py.  A candle is a row: a function from the fields it has to   *)
(* floats; a field of kind "none" holds something float() rejects.  The    *)
(* candles of the model hold finite prices, NaN or such a value.           *)

(* float(c[key]) succeeds for every key: no KeyError, ValueError, TypeError *)
Numeric(c, keys) == \A key \in keys : key \in DOMAIN c /\ c[key].k /= "none"

(* float arithmetic on finite values and NaN *)
FSub(a, b) == IF a.k = "nan" \/ b.k = "nan" THEN NaN ELSE RatSub(a, b)
FAbs(a) == IF a.k = "nan" THEN NaN ELSE RatAbs(a)
FTimes(r, a) == IF a.k = "nan" THEN NaN ELSE Rat(r.v * a.v, r.d * a.d)
(* Python's min(a, b) and max(a, b): b replaces a only when it compares so *)
PyMin(a, b) == IF FLt(b, a) THEN b ELSE a
PyMax(a, b) == IF FLt(a, b) THEN b ELSE a

bullish_engulfing_inclusive(prev, curr) ==
  IF ~Numeric(prev, {"Open", "Close"}) \/ ~Numeric(curr, {"Open", "Close"})
  THEN FALSE
  ELSE /\ FLt(prev.Close, prev.Open)
       /\ FLt(curr.Open, curr.Close)
       /\ ~FLt(prev.Close, curr.Open)
       /\ FLt(prev.Open, curr.Close)

bullish_engulfing(prev, curr) ==
  IF ~Numeric(prev, {"Open", "Close"}) \/ ~Numeric(curr, {"Open", "Close"})
  THEN FALSE
  ELSE /\ FLt(prev.Close, prev.Open)
       /\ FLt(curr.Open, curr.Close)
       /\ FLt(curr.Open, prev.Close)
       /\ FLt(prev.Open, curr.Close)

(* the default ratios of hammer: 0.25 and 2.0 *)
upper_wick_max_ratio == Rat(1, 4)
lower_wick_min_ratio == Rat(2, 1)

CandleCols == {"Open", "High", "Low", "Close"}

hammer_without_doji_guard(curr) ==
  IF ~Numeric(curr, CandleCols) THEN FALSE
  ELSE LET open_ == curr.Open
           close == curr.Close
           body == FAbs(FSub(close, open_))
           lower_wick == FSub(PyMin(open_, close), curr.Low)
           upper_wick == FSub(curr.High, PyMax(open_, close))
       IN  /\ FGe(lower_wick, FTimes(lower_wick_min_ratio, body))
           /\ FGe(FTimes(upper_wick_max_ratio, body), upper_wick)

hammer(curr) ==
  IF ~Numeric(curr, CandleCols) THEN FALSE
  ELSE LET open_ == curr.Open
           close == curr.Close
           body == FAbs(FSub(close, open_))
           lower_wick == FSub(PyMin(open_, close), curr.Low)
           upper_wick == FSub(curr.High, PyMax(open_, close))
       IN  IF body = Fin(0) THEN FALSE
           ELSE /\ FGe(lower_wick, FTimes(lower_wick_min_ratio, body))
                /\ FGe(FTimes(upper_wick_max_ratio, body), upper_wick)

Event(name, date) == [pattern |-> name, date |-> date]

(* the loop with the two tests of a bar in the other order *)
RECURSIVE PatternLoopHammerFirst(_, _, _)
PatternLoopHammerFirst(rs, i, acc) ==
  IF i > Len(rs) THEN acc
  ELSE LET hammered ==
             IF hammer(rs[i])
             THEN Append(acc, Event("Hammer", i - 1)) ELSE acc
           engulfed ==
             IF bullish_engulfing(rs[i - 1], rs[i])
             THEN Append(hammered, Event("Bullish Engulfing", i - 1))
             ELSE hammered
       IN  PatternLoopHammerFirst(rs, i + 1, engulfed)

(* the loop of detect_patterns from 1-based row i on; the date of a row is *)
(* its position in the index, counted from 0                                *)
RECURSIVE PatternLoop(_, _, _)
PatternLoop(rs, i, acc) ==
  IF i > Len(rs) THEN acc
  ELSE LET engulfed ==
             IF bullish_engulfing(rs[i - 1], rs[i])
             THEN Append(acc, Event("Bullish Engulfing", i - 1)) ELSE acc
           hammered ==
             IF hammer(rs[i])
             THEN Append(engulfed, Event("Hammer", i - 1)) ELSE engulfed
       IN  PatternLoop(rs, i + 1, hammered)

detect_patterns(f) ==
  IF ~f.frame \/ Empty(f) THEN <<>> ELSE PatternLoop(f.rows, 2, <<>>)

----------------------------------------------------------------------------
(* Inputs of the pattern detectors: one or two candles from a grid of      *)
(* prices, and series of up to MaxCandles candles from a few named ones,   *)
(* shown through all four columns or with one column missing               *)

MaxCandles == 3

Candle(o, h, l, c) ==
  [Open |-> Fin(o), High |-> Fin(h), Low |-> Fin(l), Close |-> Fin(c)]

Higher(a, b) == IF a < b THEN b ELSE a
Lower(a, b) == IF a < b THEN a ELSE b

GridPrices == {9, 10, 12, 13}
GridCandles ==
  {Candle(o, Higher(o, c) + u, Lower(o, c) - w, c) :
     o \in GridPrices, c \in GridPrices, u \in {0, 1}, w \in {0, 4, 8}}

NamedCandles ==
  {Candle(12, 12, 10, 10), Candle(9, 13, 9, 13), Candle(10, 11, 8, 11),
   Candle(10, 10, 8, 10),
   [Candle(9, 13, 9, 13) EXCEPT !.Open = None],
   [Candle(10, 11, 8, 11) EXCEPT !.Close = NaN]}

Restrict(c, cols) == [key \in cols |-> c[key]]

PatternFrames ==
  {NoFrame, Frame(CandleCols, <<>>)}
    \cup {Frame(CandleCols, rs) :
            rs \in UNION {[1..n -> GridCandles] : n \in 1..2}}
    \cup {Frame(cols, [i \in 1..Len(rs) |-> Restrict(rs[i], cols)]) :
            cols \in {CandleCols \ {key} : key \in CandleCols} \cup {CandleCols},
            rs \in UNION {[1..n -> NamedCandles] : n \in 1..MaxCandles}}

InitPatterns ==
  /\ pc = "pattern_call"
  /\ df \in PatternFrames
  /\ s_r = NoZones
  /\ plan = EmptyDict
  /\ Idle

(* hammer on the last candle of the series *)
Hammer ==
  /\ pc = "pattern_call"
  /\ df.rows /= <<>>
  /\ ret' = hammer(df.rows[Len(df.rows)])
  /\ outcome' = "returned"
  /\ pc' = "hammer"
  /\ UNCHANGED <<df, s_r, plan, swings, levels, zones, zones2, mtf,
                 patterns, summary>>

(* bullish_engulfing on the last two candles of the series *)
BullishEngulfing ==
  /\ pc = "pattern_call"
  /\ Len(df.rows) >= 2
  /\ ret' = bullish_engulfing(df.rows[Len(df.rows) - 1], df.rows[Len(df.rows)])
  /\ outcome' = "returned"
  /\ pc' = "bullish_engulfing"
  /\ UNCHANGED <<df, s_r, plan, swings, levels, zones, zones2, mtf,
                 patterns, summary>>

DetectPatterns ==
  /\ pc = "pattern_call"
  /\ patterns' = detect_patterns(df)
  /\ outcome' = "returned"
  /\ pc' = "patterns_done"
  /\ UNCHANGED <<df, s_r, plan, swings, levels, zones, zones2, mtf,
                 summary, ret>>

NextPatterns == Hammer \/ BullishEngulfing \/ DetectPatterns

SpecPatterns == InitPatterns /\ [][NextPatterns]_vars

(* the candles the last call looked at *)
Curr == df.rows[Len(df.rows)]
Prev == df.rows[Len(df.rows) - 1]

(* a field that is there and holds a finite number *)
Known(c, key) == key \in DOMAIN c /\ c[key].k = "fin"

(* C17: hammer never fires on a candle whose open equals its close, for    *)
(* any high and low, and it raises no error on it.                         *)
C17_NoHammerOnDoji ==
  (pc = "hammer" /\ Known(Curr, "Open") /\ Known(Curr, "Close")
     /\ Curr.Open.v = Curr.Close.v)
    => (ret = FALSE /\ outcome = "returned")

(* a doji with a long lower wick and no upper wick, the shape that would   *)
(* pass both wick tests                                                     *)
C17_Witness ==
  /\ pc = "hammer"
  /\ Curr = Candle(10, 10, 6, 10)
  /\ ret = FALSE

(* C24: detect_patterns emits its events in increasing bar order; where   *)
(* both patterns fire at one bar the Bullish Engulfing event precedes the  *)
(* Hammer event; no event is dated at bar 0, at most 2 * (N - 1) events    *)
(* are returned, and a series of 0 or 1 bars yields none.                  *)
C24_EventsInScanOrder ==
  pc = "patterns_done" =>
    /\ \A i \in 1..Len(patterns) :
         /\ patterns[i].date \in 1..(Len(df.rows) - 1)
         /\ patterns[i].pattern \in {"Bullish Engulfing", "Hammer"}
    /\ \A i \in 1..Len(patterns) : \A j \in (i + 1)..Len(patterns) :
         /\ patterns[i].date <= patterns[j].date
         /\ patterns[i].date = patterns[j].date =>
              /\ patterns[i].pattern = "Bullish Engulfing"
              /\ patterns[j].pattern = "Hammer"
    /\ Len(df.rows) >= 1 => Len(patterns) <= 2 * (Len(df.rows) - 1)
    /\ Len(df.rows) <= 1 => patterns = <<>>

(* both patterns fire at bar 1 *)
C24_Witness ==
  /\ pc = "patterns_done"
  /\ df.rows = <<Candle(12, 12, 10, 10), Candle(9, 13, 1, 13)>>
  /\ patterns = <<Event("Bullish Engulfing", 1), Event("Hammer", 1)>>

(* a < b on two fields that hold finite prices *)
Below(a, b) == a.k = "fin" /\ b.k = "fin" /\ a.v < b.v

(* C18: bullish_engulfing(prev, curr) is true iff prev.close < prev.open,  *)
(* curr.close > curr.open, curr.open < prev.close and curr.close >         *)
(* prev.open; it is false whenever prev.close >= prev.open, and false, not *)
(* an error, when a needed field is missing or non-numeric.                *)
C18_EngulfingIffFourTests ==
  pc = "bullish_engulfing" =>
    /\ outcome = "returned"
    /\ ret = (/\ Numeric(Prev, {"Open", "Close"})
              /\ Numeric(Curr, {"Open", "Close"})
              /\ Below(Prev.Close, Prev.Open)
              /\ Below(Curr.Open, Curr.Close)
              /\ Below(Curr.Open, Prev.Close)
              /\ Below(Prev.Open, Curr.Close))
    /\ (Numeric(Prev, {"Open", "Close"}) /\ ~Below(Prev.Close, Prev.Open))
         => ret = FALSE
    /\ (\E c \in {Prev, Curr} : ~Numeric(c, {"Open", "Close"})) => ret = FALSE

(* the engulfing pair 12 -> 10 then 9 -> 13 *)
C18_Witness ==
  /\ pc = "bullish_engulfing"
  /\ Prev = Candle(12, 12, 10, 10)
  /\ Curr = Candle(9, 13, 9, 13)
  /\ ret = TRUE

----------------------------------------------------------------------------
(* Inputs of trend_fn: a slow average of 1000 or -1000 price units with    *)
(* the fast one at gaps around the three bands (5, 15 and 30 per mille),   *)
(* a zero slow average, the values _safe_float lets through or drops, and  *)
(* frames without one of the columns or without rows                       *)

TrendGaps == {0, 4, 5, 6, 14, 15, 16, 29, 30, 31}

TrendSma200 ==
  {Fin(1000), Fin(-1000), Fin(0), NaN, None, PosInf, NegInf}

TrendSma50 ==
  {Fin(1000 + g) : g \in TrendGaps} \cup {Fin(1000 - g) : g \in TrendGaps}
    \cup {Fin(-1000 + g) : g \in TrendGaps} \cup {Fin(0)}
    \cup {NaN, None, PosInf, NegInf}

TrendFrames ==
  {SmaFrame(a, b) : a \in TrendSma50, b \in TrendSma200}
    \cup {Frame({"SMA50", "SMA200"},
                <<[SMA50 |-> Fin(1031), SMA200 |-> Fin(1000)],
                  [SMA50 |-> a, SMA200 |-> b]>>) :
            a \in {Fin(1000), NaN}, b \in {Fin(1000), Fin(0), NaN}}
    \cup {Frame({"SMA50"}, <<[SMA50 |-> Fin(1000)]>>),
          Frame({"SMA200"}, <<[SMA200 |-> Fin(1000)]>>),
          Frame({"SMA50", "SMA200"}, <<>>), Frame({}, <<>>)}

InitTrend ==
  /\ pc = "trend_call"
  /\ df \in TrendFrames
  /\ s_r = NoZones
  /\ plan = EmptyDict
  /\ Idle

TrendFn ==
  /\ pc = "trend_call"
  /\ ret' = trend_fn(df)
  /\ outcome' = "returned"
  /\ pc' = "trend_done"
  /\ UNCHANGED <<df, s_r, plan, swings, levels, zones, zones2, mtf,
                 patterns, summary>>

NextTrend == TrendFn

SpecTrend == InitTrend /\ [][NextTrend]_vars

(* the column is absent, has no rows, or ends in NaN or None *)
Missing(f, col) ==
  col \notin f.columns \/ f.rows = <<>> \/ Last(f, col).k \in {"nan", "none"}

(* trend_fn has classified a frame with both averages present and a slow   *)
(* one that is not zero                                                     *)
Classified ==
  /\ pc = "trend_done"
  /\ ~Missing(df, "SMA50")
  /\ ~Missing(df, "SMA200")
  /\ Last(df, "SMA200") /= Fin(0)

(* g = |sma50 - sma200| / sma200 of the frame *)
G == DiffAbs(Last(df, "SMA50"), Last(df, "SMA200"))

(* C19: given a non-missing sma50 and a non-zero sma200, trend_fn          *)
(* classifies by g = |sma50 - sma200| / sma200: g < 0.5% gives Neutral and *)
(* Weak; otherwise the label is Bullish if sma50 > sma200 and Bearish if   *)
(* sma50 < sma200, and the strength is Strong iff g >= 3%, Moderate iff    *)
(* 1.5% <= g < 3%, Weak iff 0.5% <= g < 1.5%.                              *)
C19_TrendBands ==
  Classified =>
    IF FLt(G, Rat(5, 1000))
    THEN ret.trend = "Neutral" /\ ret.strength = "Weak"
    ELSE /\ FLt(Last(df, "SMA200"), Last(df, "SMA50")) => ret.trend = "Bullish"
         /\ FLt(Last(df, "SMA50"), Last(df, "SMA200")) => ret.trend = "Bearish"
         /\ ret.strength = "Strong" <=> FGe(G, Rat(30, 1000))
         /\ ret.strength = "Moderate" <=>
              (FGe(G, Rat(15, 1000)) /\ FLt(G, Rat(30, 1000)))
         /\ ret.strength = "Weak" <=>
              (FGe(G, Rat(5, 1000)) /\ FLt(G, Rat(15, 1000)))

(* C20: trend_fn returns the label Unknown with the strength Unknown iff   *)
(* sma50 is missing, sma200 is missing or sma200 is zero; in every other   *)
(* case label and strength are known values, and the division by sma200    *)
(* has a non-zero divisor.                                                  *)
C20_UnknownIffMissingOrZero ==
  pc = "trend_done" =>
    /\ (ret.trend = "Unknown" /\ ret.strength = "Unknown") <=> ~Classified
    /\ Classified =>
         /\ ret.trend \in {"Bullish", "Bearish", "Neutral"}
         /\ ret.strength \in {"Strong", "Moderate", "Weak"}
         /\ ret.sma200 /= Fin(0)
    /\ ~Classified => ret.trend = "Unknown" /\ ret.strength = "Unknown"

(* both averages present and the slow one zero *)
C20_Witness ==
  /\ pc = "trend_done"
  /\ df = SmaFrame(Fin(1000), Fin(0))
  /\ ret = UnknownTrend(Fin(1000), Fin(0))

----------------------------------------------------------------------------
(* trend.classify_trend, and trend_fn on the averages of calculate_smas    *)

classify_trend(f) ==
  IF NoClose(f) THEN "Neutral"
  ELSE LET last_sma50 == RollingMean(f, Len(f.rows), SmaShort)
           last_sma200 == RollingMean(f, Len(f.rows), SmaLong)
       IN  IF last_sma50.k = "nan" \/ last_sma200.k = "nan" THEN "Neutral"
           ELSE IF FLt(last_sma200, last_sma50) THEN "Bullish"
           ELSE IF FLt(last_sma50, last_sma200) THEN "Bearish"
           ELSE "Neutral"

(* Close series: a run of one price followed by a run of at most MaxTail   *)
(* bars of another, the first run ending around the short window            *)
SmaCloses == {0, 100, 101, 120, -100}

SmaLeads == {0, 1, SmaShort - 1, SmaShort, SmaShort + 1}

Closes(a, lead, b, tail) ==
  [i \in 1..(lead + tail) |-> CloseRow(Fin(IF i <= lead THEN a ELSE b))]

CloseFrames ==
  {Frame({"Close"}, Closes(a, lead, b, tail)) :
     a \in SmaCloses, lead \in SmaLeads, b \in SmaCloses, tail \in 1..MaxTail}
    \cup {Frame({"Close"}, <<>>), Frame({}, <<>>)}

InitSmaTrend ==
  /\ pc = "closes"
  /\ df \in CloseFrames
  /\ s_r = NoZones
  /\ plan = EmptyDict
  /\ Idle

(* ret collects the values returned so far, by function *)
ClassifyTrend ==
  /\ pc = "closes"
  /\ ret' = [classify_trend |-> classify_trend(df)]
  /\ outcome' = "returned"
  /\ pc' = "classified"
  /\ UNCHANGED <<df, s_r, plan, swings, levels, zones, zones2, mtf,
                 patterns, summary>>

SmasOfCloses ==
  /\ pc = "classified"
  /\ df' = calculate_smas(df).f
  /\ outcome' = calculate_smas(df).out
  /\ pc' = "smas"
  /\ UNCHANGED <<s_r, plan, swings, levels, zones, zones2, mtf,
                 patterns, summary, ret>>

TrendOfSmas ==
  /\ pc = "smas"
  /\ ret' = [classify_trend |-> ret.classify_trend, trend_fn |-> trend_fn(df)]
  /\ outcome' = "returned"
  /\ pc' = "trended"
  /\ UNCHANGED <<df, s_r, plan, swings, levels, zones, zones2, mtf,
                 patterns, summary>>

NextSmaTrend == ClassifyTrend \/ SmasOfCloses \/ TrendOfSmas

SpecSmaTrend == InitSmaTrend /\ [][NextSmaTrend]_vars

(* the mean of the closes of bars 1 .. i *)
MeanSoFar(i) == Rat(SeqSum([j \in 1..i |-> df.rows[j].Close.v]), i)

(* C29: both averages use minimum periods = 1, so on a series of at most   *)
(* 50 bars SMA50 equals SMA200 at every bar, both the mean of the closes   *)
(* so far, and trend_fn after calculate_smas returns Neutral/Weak whenever *)
(* that mean is not zero, whichever way the price moved.                    *)
C29_ShortSeriesNeutralWeak ==
  (pc \in {"smas", "trended"} /\ ~NoClose(df) /\ Len(df.rows) <= SmaShort) =>
    /\ HasCols(df, {"SMA50", "SMA200"})
    /\ \A i \in 1..Len(df.rows) :
         /\ df.rows[i].SMA50 = MeanSoFar(i)
         /\ df.rows[i].SMA200 = MeanSoFar(i)
    /\ (pc = "trended" /\ MeanSoFar(Len(df.rows)) /= Fin(0)) =>
         /\ ret.trend_fn.trend = "Neutral"
         /\ ret.trend_fn.strength = "Weak"

(* exactly 50 bars, the last one 20% above the others *)
C29_Witness ==
  /\ pc = "trended"
  /\ df.columns = {"Close", "SMA50", "SMA200"}
  /\ Len(df.rows) = SmaShort
  /\ df.rows[1].Close = Fin(100)
  /\ Last(df, "Close") = Fin(120)
  /\ Last(df, "SMA50") = Last(df, "SMA200")
  /\ ret.trend_fn.trend = "Neutral"
  /\ ret.trend_fn.strength = "Weak"

(* C30: on every non-empty Close series of positive prices classify_trend  *)
(* returns the label that trend_fn returns on the SMA50 and SMA200 columns *)
(* calculate_smas computes from the same closes.                            *)
C30_ClassifiersAgree ==
  (/\ pc = "trended"
   /\ ~NoClose(df)
   /\ \A i \in 1..Len(df.rows) : df.rows[i].Close.v > 0)
    => ret.classify_trend = ret.trend_fn.trend

====
